---- MODULE Spec2Model ----
(***************************************************************************)
(* Lifecycle of testcontainers' Container (src/core/container.rs).         *)
(*                                                                         *)
(* A Container binds an instance id, a borrowed Docker client and an owned *)
(* Image.  Container::new builds the value and then blocks in              *)
(* block_until_ready; the accessors and start/stop/rm forward to the       *)
(* client with self.id; Drop::drop reads KEEP_CONTAINERS and calls         *)
(* self.stop() or self.rm().                                               *)
(*                                                                         *)
(* The Docker client, the Ports value it returns and the Image's           *)
(* wait_until_ready live outside container.rs.  Their signatures are fixed *)
(* by the way container.rs uses them: Docker::stop and Docker::rm return   *)
(* () (they are the tail expressions of Container::stop and Container::rm, *)
(* which return ()), and the results of Docker::start and of               *)
(* Image::wait_until_ready are discarded by a `;`.  A call that fails can  *)
(* therefore only either return normally ("err": the failure stays inside  *)
(* the client) or panic ("panic": the failure unwinds through the caller). *)
(* Panics unwind (Rust's default panic strategy).                          *)
(***************************************************************************)
EXTENDS Naturals, Sequences, FiniteSets

(* ------------------------------ bounds --------------------------------- *)

\* At most MaxSteps optional steps are taken: method calls of callers and
\* readiness predicates, panics of the callers' own, and changes of the
\* environment (KEEP_CONTAINERS, the client's port tables, the client's
\* reachability).  Construction and Drop::drop are not counted: they are never
\* cut off.
MaxSteps == 2

\* The Container values of the program.
Slots == {1, 2}

\* Instance ids the client has created and handed out.
InstanceIds == {"abc123", "def456"}

\* The id the client handed out for the instance Container c is constructed
\* over (ids are unique: no two Containers are constructed over one id).
GivenId == [c \in Slots |-> IF c = 1 THEN "abc123" ELSE "def456"]

Images == {"img"}

InternalPorts == {80, 81}

HostPorts == {49153, 49154}

\* Values of the KEEP_CONTAINERS environment variable; Unset is "not present".
Unset == "<unset>"

EnvValues == {Unset, "true", "false", "1"}

NoContainer == [id |-> "<none>", image |-> "<none>"]

NoCall == [slot |-> 0, op |-> "none", by |-> "none", out |-> "none", arg |-> 0, ret |-> {}, diag |-> "none"]

(* --------------------------- Option<u16> ------------------------------- *)

None == {}

Some(h) == {h}

(* ----------------------------- state ----------------------------------- *)

VARIABLES
    self,       \* self[c]: the fields id and image of Container c (struct Container)
    pc,         \* pc[c]: "created" (id handed out, new not called), "waiting" (inside
                \* block_until_ready), "live" (returned to the caller), "unwinding" (a
                \* panic is unwinding the frame that owns c), "dropped" (Drop::drop ran)
    ready,      \* ready[c]: outcome of wait_until_ready: "none", "ok", "panic"
    exit,       \* exit[c]: how the owning scope was left: "none", "normal", "unwind"
    drops,      \* drops[c]: number of times Drop::drop ran for c
    escaped,    \* escaped[c]: a panic propagated out of Drop::drop of c
    waits,      \* waits[c]: number of times wait_until_ready was invoked for c
    envAtNew,   \* envAtNew[c]: value of KEEP_CONTAINERS when new(c) was called (history)
    envAtDrop,  \* envAtDrop[c]: value of KEEP_CONTAINERS when Drop::drop ran for c (history)
    env,        \* the process environment: value of KEEP_CONTAINERS
    inst,       \* client side: inst[i] in {"running", "stopped", "removed"}
    ports,      \* client side: ports[i], the port mapping table of instance i
    reachable,  \* client side: the runtime answers the client
    log,        \* the calls the client received, in order
    last,       \* the most recent call of a Container method and its result
    nquiet      \* number of optional steps so far that issued no client call

vars == <<self, pc, ready, exit, drops, escaped, waits, envAtNew, envAtDrop, env, inst, ports, reachable, log, last, nquiet>>

containerVars == <<self, pc, ready, exit, drops, escaped, waits, envAtNew, envAtDrop>>

(* ------------------ the client (outside container.rs) ------------------ *)

\* A port mapping table: a partial map from internal ports to host ports.  The
\* tables considered map 80 alone, or 80 and 81 to increasing host ports.
PortTables ==
    {t \in UNION {[D -> HostPorts] : D \in SUBSET InternalPorts} :
        81 \in DOMAIN t => (80 \in DOMAIN t /\ t[80] < t[81])}

\* Ports::map_to_host_port
map_to_host_port(table, internal_port) ==
    IF internal_port \in DOMAIN table THEN Some(table[internal_port]) ELSE None

\* The runtime's state after a successful call.
Effect(op, s) ==
    CASE op = "start" -> "running"
      [] op = "stop"  -> "stopped"
      [] op = "rm"    -> "removed"
      [] OTHER        -> s

\* A call fails when the client cannot reach the runtime or the instance is gone.
Fault(i) == ~reachable \/ inst[i] = "removed"

\* Outcomes of a client call.  start, stop and rm return (): a failure either
\* stays inside the client or panics.  ports and logs return a value the caller
\* uses at once, so a failure has no value to return and panics.
Outcomes(op, i) ==
    IF ~Fault(i) THEN {"ok"}
    ELSE IF op \in {"ports", "logs"} THEN {"panic"}
    ELSE {"err", "panic"}

\* The client receives the call op(i), issued by `by` on behalf of Container c.
ClientCall(op, i, by, c, out) ==
    /\ out \in Outcomes(op, i)
    /\ inst' = IF out = "ok" THEN [inst EXCEPT ![i] = Effect(op, @)] ELSE inst
    /\ log' = Append(log, [op |-> op, id |-> i, by |-> by, slot |-> c])
    /\ UNCHANGED <<ports, reachable>>

(* ----------------------- Container's methods --------------------------- *)

\* Container::id
id(c) == self[c].id

\* Container::image
image(c) == self[c].image

\* Container::stop forwarding to the client's rm.
stop_calls_rm(c, by, out) == ClientCall("rm", self[c].id, by, c, out)

\* Container::stop
stop(c, by, out) == ClientCall("stop", self[c].id, by, c, out)

\* Container::start
start(c, by, out) == ClientCall("start", self[c].id, by, c, out)

\* Container::rm naming another instance than its own.
rm_other_id(c, by, out) ==
    \E i \in InstanceIds \ {self[c].id} : ClientCall("rm", i, by, c, out)

\* Container::rm
rm(c, by, out) == ClientCall("rm", self[c].id, by, c, out)

\* Container::logs
logs(c, by, out) == ClientCall("logs", self[c].id, by, c, out)

\* get_host_port answering with the internal port itself.
resolved_port_identity(c, internal_port) == Some(internal_port)

\* Container::get_host_port: the value it returns and the diagnostic it logs.
resolved_port(c, internal_port) == map_to_host_port(ports[self[c].id], internal_port)

Diagnostic(resolved) == IF resolved = None THEN "warn" ELSE "debug"

\* get_host_port that publishes the port it was asked for when it is not mapped.
get_host_port_exposes(c, internal_port, by, out) ==
    /\ out \in Outcomes("ports", self[c].id)
    /\ log' = Append(log, [op |-> "ports", id |-> self[c].id, by |-> by, slot |-> c])
    /\ ports' = IF out = "ok" /\ internal_port \notin DOMAIN ports[self[c].id]
                THEN [ports EXCEPT ![self[c].id] =
                        [p \in DOMAIN @ \cup {internal_port} |->
                            IF p \in DOMAIN @ THEN @[p] ELSE 49154]]
                ELSE ports
    /\ UNCHANGED <<inst, reachable>>

get_host_port(c, internal_port, by, out) == ClientCall("ports", self[c].id, by, c, out)

(* ------------------------- KEEP_CONTAINERS ----------------------------- *)

\* A lenient parse that also takes "1" for true.
ParseBool_lenient(s) ==
    CASE s \in {"true", "1"} -> {TRUE}
      [] s = "false"         -> {FALSE}
      [] OTHER               -> {}

\* str::parse::<bool>: Ok(true) for "true", Ok(false) for "false", Err otherwise.
\* The result is an Option after .ok(): a set with at most one element.
ParseBool(s) ==
    CASE s = "true"  -> {TRUE}
      [] s = "false" -> {FALSE}
      [] OTHER       -> {}

\* var("KEEP_CONTAINERS").ok().and_then(|var| var.parse().ok()).unwrap_or(false)
keep_container(v) ==
    LET parsed == IF v = Unset THEN {} ELSE ParseBool(v)
    IN  IF parsed = {} THEN FALSE ELSE CHOOSE b \in parsed : TRUE

(* ----------------------------- Init ------------------------------------ *)

Init ==
    /\ self = [c \in Slots |-> NoContainer]
    /\ pc = [c \in Slots |-> "created"]
    /\ ready = [c \in Slots |-> "none"]
    /\ exit = [c \in Slots |-> "none"]
    /\ drops = [c \in Slots |-> 0]
    /\ escaped = [c \in Slots |-> FALSE]
    /\ waits = [c \in Slots |-> 0]
    /\ envAtNew = [c \in Slots |-> Unset]
    /\ envAtDrop = [c \in Slots |-> Unset]
    /\ env = Unset
    /\ inst = [i \in InstanceIds |-> "running"]
    /\ ports = [i \in InstanceIds |-> [p \in {80} |-> IF i = "abc123" THEN 49153 ELSE 49154]]
    /\ reachable = TRUE
    /\ log = <<>>
    /\ last = NoCall
    /\ nquiet = 0

(* ---------------------------- bookkeeping ------------------------------ *)

\* Calls issued so far by callers and readiness predicates.
OpsUsed == Cardinality({k \in 1..Len(log) : log[k].by # "drop"})

\* An optional step may still be taken.
MayStep == OpsUsed + nquiet < MaxSteps

Call(c, op, by, out, arg, ret, diag) ==
    [slot |-> c, op |-> op, by |-> by, out |-> out, arg |-> arg, ret |-> ret, diag |-> diag]

\* A panic in a method called on c unwinds the frame that owns c.
AfterCall(c, out) == IF out = "panic" THEN "unwinding" ELSE pc[c]

(* ---------------------- construction (Container::new) ------------------ *)

\* Container::new without the call of block_until_ready.
new_without_wait(c) ==
    /\ pc[c] = "created"
    /\ \E img \in Images :
          self' = [self EXCEPT ![c] = [id |-> GivenId[c], image |-> img]]
    /\ pc' = [pc EXCEPT ![c] = "live"]
    /\ envAtNew' = [envAtNew EXCEPT ![c] = env]
    /\ last' = NoCall
    /\ UNCHANGED <<waits, ready, exit, drops, escaped, envAtDrop, env, inst, ports, reachable, log, nquiet>>

\* Container::new keeping an id other than the one it was given.
new_wrong_id(c) ==
    /\ pc[c] = "created"
    /\ \E img \in Images, i \in InstanceIds \ {GivenId[c]} :
          self' = [self EXCEPT ![c] = [id |-> i, image |-> img]]
    /\ pc' = [pc EXCEPT ![c] = "waiting"]
    /\ waits' = [waits EXCEPT ![c] = @ + 1]
    /\ envAtNew' = [envAtNew EXCEPT ![c] = env]
    /\ last' = NoCall
    /\ UNCHANGED <<ready, exit, drops, escaped, envAtDrop, env, inst, ports, reachable, log, nquiet>>

\* Container::new up to the call of block_until_ready: the value is built from
\* the given id, client reference and image, and it is a local of new.
new(c) ==
    /\ pc[c] = "created"
    /\ \E img \in Images :
          self' = [self EXCEPT ![c] = [id |-> GivenId[c], image |-> img]]
    /\ pc' = [pc EXCEPT ![c] = "waiting"]
    /\ waits' = [waits EXCEPT ![c] = @ + 1]
    /\ envAtNew' = [envAtNew EXCEPT ![c] = env]
    /\ last' = NoCall
    /\ UNCHANGED <<ready, exit, drops, escaped, envAtDrop, env, inst, ports, reachable, log, nquiet>>

\* Image::wait_until_ready(&container) queries the container it was given
\* through the accessors callers use.
wait_until_ready_query(c) ==
    /\ pc[c] = "waiting"
    /\ MayStep
    /\ \E out \in {"ok", "panic"} :
          /\ \/ \E p \in InternalPorts :
                   /\ get_host_port(c, p, "pred", out)
                   /\ last' = IF out = "ok"
                              THEN Call(c, "ports", "pred", out, p, resolved_port(c, p),
                                        Diagnostic(resolved_port(c, p)))
                              ELSE Call(c, "ports", "pred", out, p, None, "none")
             \/ /\ logs(c, "pred", out)
                /\ last' = Call(c, "logs", "pred", out, 0, None, "none")
          /\ pc' = [pc EXCEPT ![c] = AfterCall(c, out)]
          /\ ready' = [ready EXCEPT ![c] = IF out = "panic" THEN "panic" ELSE @]
    /\ UNCHANGED <<self, exit, drops, escaped, waits, envAtNew, envAtDrop, env, nquiet>>

\* block_until_ready that gives up waiting and returns although the predicate
\* has not.
block_until_ready_timeout(c) ==
    /\ pc[c] = "waiting"
    /\ pc' = [pc EXCEPT ![c] = "live"]
    /\ last' = NoCall
    /\ UNCHANGED <<self, ready, exit, drops, escaped, waits, envAtNew, envAtDrop, env, inst, ports, reachable, log, nquiet>>

\* block_until_ready returns and Container::new yields the container.
block_until_ready(c) ==
    /\ pc[c] = "waiting"
    /\ pc' = [pc EXCEPT ![c] = "live"]
    /\ ready' = [ready EXCEPT ![c] = "ok"]
    /\ last' = NoCall
    /\ UNCHANGED <<self, exit, drops, escaped, waits, envAtNew, envAtDrop, env, inst, ports, reachable, log, nquiet>>

\* wait_until_ready panics and the Container is lost without its destructor
\* running (as if new had not built it yet).
wait_until_ready_panics_no_drop(c) ==
    /\ pc[c] = "waiting"
    /\ pc' = [pc EXCEPT ![c] = "dropped"]
    /\ ready' = [ready EXCEPT ![c] = "panic"]
    /\ exit' = [exit EXCEPT ![c] = "unwind"]
    /\ last' = NoCall
    /\ UNCHANGED <<self, drops, escaped, waits, envAtNew, envAtDrop, env, inst, ports, reachable, log, nquiet>>

\* wait_until_ready panics: the panic unwinds through block_until_ready and new,
\* whose local `container` is dropped on the way.
wait_until_ready_panics(c) ==
    /\ pc[c] = "waiting"
    /\ pc' = [pc EXCEPT ![c] = "unwinding"]
    /\ ready' = [ready EXCEPT ![c] = "panic"]
    /\ last' = NoCall
    /\ UNCHANGED <<self, exit, drops, escaped, waits, envAtNew, envAtDrop, env, inst, ports, reachable, log, nquiet>>

(* ------------------------ the caller's operations ---------------------- *)

CallerFrame == <<self, ready, exit, drops, escaped, waits, envAtNew, envAtDrop, env, nquiet>>

CallerStop(c) ==
    /\ pc[c] = "live"
    /\ MayStep
    /\ \E out \in {"ok", "err", "panic"} :
          /\ stop(c, "caller", out)
          /\ last' = Call(c, "stop", "caller", out, 0, None, "none")
          /\ pc' = [pc EXCEPT ![c] = AfterCall(c, out)]
    /\ UNCHANGED CallerFrame

\* Container::start that blocks on the readiness predicate again.
CallerStart_rewaits(c) ==
    /\ pc[c] = "live"
    /\ MayStep
    /\ \E out \in {"ok", "err", "panic"} :
          /\ start(c, "caller", out)
          /\ last' = Call(c, "start", "caller", out, 0, None, "none")
          /\ pc' = [pc EXCEPT ![c] = IF out = "panic" THEN "unwinding" ELSE "waiting"]
    /\ waits' = [waits EXCEPT ![c] = @ + 1]
    /\ UNCHANGED <<self, ready, exit, drops, escaped, envAtNew, envAtDrop, env, nquiet>>

CallerStart(c) ==
    /\ pc[c] = "live"
    /\ MayStep
    /\ \E out \in {"ok", "err", "panic"} :
          /\ start(c, "caller", out)
          /\ last' = Call(c, "start", "caller", out, 0, None, "none")
          /\ pc' = [pc EXCEPT ![c] = AfterCall(c, out)]
    /\ UNCHANGED CallerFrame

CallerRm(c) ==
    /\ pc[c] = "live"
    /\ MayStep
    /\ \E out \in {"ok", "err", "panic"} :
          /\ rm(c, "caller", out)
          /\ last' = Call(c, "rm", "caller", out, 0, None, "none")
          /\ pc' = [pc EXCEPT ![c] = AfterCall(c, out)]
    /\ UNCHANGED CallerFrame

CallerLogs(c) ==
    /\ pc[c] = "live"
    /\ MayStep
    /\ \E out \in {"ok", "panic"} :
          /\ logs(c, "caller", out)
          /\ last' = Call(c, "logs", "caller", out, 0, None, "none")
          /\ pc' = [pc EXCEPT ![c] = AfterCall(c, out)]
    /\ UNCHANGED CallerFrame

CallerGetHostPort(c) ==
    /\ pc[c] = "live"
    /\ MayStep
    /\ \E p \in InternalPorts, out \in {"ok", "panic"} :
          /\ get_host_port(c, p, "caller", out)
          /\ last' = IF out = "ok"
                     THEN Call(c, "ports", "caller", out, p, resolved_port(c, p),
                               Diagnostic(resolved_port(c, p)))
                     ELSE Call(c, "ports", "caller", out, p, None, "none")
          /\ pc' = [pc EXCEPT ![c] = AfterCall(c, out)]
    /\ UNCHANGED CallerFrame

\* id() and image() read the fields; the client is not involved.
CallerId(c) ==
    /\ pc[c] = "live"
    /\ MayStep
    /\ last' = Call(c, "id", "caller", "ok", 0, {id(c)}, "none")
    /\ nquiet' = nquiet + 1
    /\ UNCHANGED <<containerVars, env, inst, ports, reachable, log>>

CallerImage(c) ==
    /\ pc[c] = "live"
    /\ MayStep
    /\ last' = Call(c, "image", "caller", "ok", 0, {image(c)}, "none")
    /\ nquiet' = nquiet + 1
    /\ UNCHANGED <<containerVars, env, inst, ports, reachable, log>>

\* The code that owns c panics for a reason of its own (a failed assertion of
\* a test): its frame unwinds.
CallerPanics(c) ==
    /\ pc[c] = "live"
    /\ MayStep
    /\ pc' = [pc EXCEPT ![c] = "unwinding"]
    /\ nquiet' = nquiet + 1
    /\ last' = NoCall
    /\ UNCHANGED <<self, ready, exit, drops, escaped, waits, envAtNew, envAtDrop, env, inst, ports, reachable, log>>

(* ------------------------------ Drop ----------------------------------- *)

\* The part of Drop::drop that is the same on both branches: the scope that
\* owns c ends by fall-through ("live") or by unwinding ("unwinding").
ScopeEnds(c) ==
    /\ pc[c] \in {"live", "unwinding"}
    /\ exit' = [exit EXCEPT ![c] = IF pc[c] = "unwinding" THEN "unwind" ELSE "normal"]
    /\ pc' = [pc EXCEPT ![c] = "dropped"]
    /\ drops' = [drops EXCEPT ![c] = @ + 1]
    /\ envAtDrop' = [envAtDrop EXCEPT ![c] = env]
    /\ UNCHANGED <<self, ready, waits, envAtNew, env, nquiet>>

\* Drop::drop that leaves the Container in place, so that it can run again.
drop_stays_live(c) ==
    /\ pc[c] \in {"live", "unwinding"}
    /\ drops[c] < 2
    /\ exit' = [exit EXCEPT ![c] = IF pc[c] = "unwinding" THEN "unwind" ELSE "normal"]
    /\ drops' = [drops EXCEPT ![c] = @ + 1]
    /\ envAtDrop' = [envAtDrop EXCEPT ![c] = env]
    /\ \E out \in {"ok", "err", "panic"} :
          /\ IF keep_container(env)
             THEN stop(c, "drop", out) /\ last' = Call(c, "stop", "drop", out, 0, None, "none")
             ELSE rm(c, "drop", out) /\ last' = Call(c, "rm", "drop", out, 0, None, "none")
          /\ escaped' = [escaped EXCEPT ![c] = (out = "panic")]
    /\ UNCHANGED <<self, pc, ready, waits, envAtNew, env, nquiet>>

\* Drop::drop deciding by the value KEEP_CONTAINERS had at construction.
drop_cached(c) ==
    /\ ScopeEnds(c)
    /\ \E out \in {"ok", "err", "panic"} :
          /\ IF keep_container(envAtNew[c])
             THEN stop(c, "drop", out) /\ last' = Call(c, "stop", "drop", out, 0, None, "none")
             ELSE rm(c, "drop", out) /\ last' = Call(c, "rm", "drop", out, 0, None, "none")
          /\ escaped' = [escaped EXCEPT ![c] = (out = "panic")]

\* Drop::drop that issues its call a second time when the first one failed.
drop_retry(c) ==
    /\ ScopeEnds(c)
    /\ \E out \in {"ok", "err", "panic"} :
          /\ out \in Outcomes("rm", self[c].id)
          /\ LET op == IF keep_container(env) THEN "stop" ELSE "rm"
                 e  == [op |-> op, id |-> self[c].id, by |-> "drop", slot |-> c]
             IN  /\ inst' = IF out = "ok" THEN [inst EXCEPT ![self[c].id] = Effect(op, @)] ELSE inst
                 /\ log' = IF out = "ok" THEN Append(log, e) ELSE log \o <<e, e>>
                 /\ last' = Call(c, op, "drop", out, 0, None, "none")
          /\ escaped' = [escaped EXCEPT ![c] = (out = "panic")]
          /\ UNCHANGED <<ports, reachable>>

\* Drop::drop with `true => ()`: KEEP_CONTAINERS=true leaves the container alone.
drop_keep_running(c) ==
    /\ ScopeEnds(c)
    /\ IF keep_container(env)
       THEN /\ last' = NoCall
            /\ escaped' = [escaped EXCEPT ![c] = FALSE]
            /\ UNCHANGED <<inst, ports, reachable, log>>
       ELSE \E out \in {"ok", "err", "panic"} :
               /\ rm(c, "drop", out)
               /\ last' = Call(c, "rm", "drop", out, 0, None, "none")
               /\ escaped' = [escaped EXCEPT ![c] = (out = "panic")]

\* Drop::drop with `false => { self.stop(); self.rm() }`.
drop_stop_then_rm(c) ==
    /\ ScopeEnds(c)
    /\ \E out \in {"ok", "err", "panic"} :
          /\ out \in Outcomes("rm", self[c].id)
          /\ IF keep_container(env)
             THEN /\ stop(c, "drop", out)
                  /\ last' = Call(c, "stop", "drop", out, 0, None, "none")
             ELSE /\ inst' = IF out = "ok" THEN [inst EXCEPT ![self[c].id] = "removed"] ELSE inst
                  /\ log' = log \o << [op |-> "stop", id |-> self[c].id, by |-> "drop", slot |-> c],
                                      [op |-> "rm", id |-> self[c].id, by |-> "drop", slot |-> c] >>
                  /\ last' = Call(c, "rm", "drop", out, 0, None, "none")
                  /\ UNCHANGED <<ports, reachable>>
          /\ escaped' = [escaped EXCEPT ![c] = (out = "panic")]

\* Drop::drop that catches what its call raises (catch_unwind around the match).
drop_swallows(c) ==
    /\ ScopeEnds(c)
    /\ \E out \in {"ok", "err", "panic"} :
          /\ IF keep_container(env)
             THEN stop(c, "drop", out) /\ last' = Call(c, "stop", "drop", out, 0, None, "none")
             ELSE rm(c, "drop", out) /\ last' = Call(c, "rm", "drop", out, 0, None, "none")
          /\ escaped' = [escaped EXCEPT ![c] = FALSE]

\* Drop::drop that does nothing for an instance that is already removed.
drop_skips_removed(c) ==
    /\ ScopeEnds(c)
    /\ IF inst[self[c].id] = "removed"
       THEN /\ last' = NoCall
            /\ escaped' = [escaped EXCEPT ![c] = FALSE]
            /\ UNCHANGED <<inst, ports, reachable, log>>
       ELSE \E out \in {"ok", "err", "panic"} :
               /\ IF keep_container(env)
                  THEN stop(c, "drop", out) /\ last' = Call(c, "stop", "drop", out, 0, None, "none")
                  ELSE rm(c, "drop", out) /\ last' = Call(c, "rm", "drop", out, 0, None, "none")
               /\ escaped' = [escaped EXCEPT ![c] = (out = "panic")]

\* Drop::drop: read KEEP_CONTAINERS, then self.stop() or self.rm().  The call
\* is not wrapped: a panic of the client leaves drop as it leaves stop or rm.
drop(c) ==
    /\ ScopeEnds(c)
    /\ \E out \in {"ok", "err", "panic"} :
          /\ IF keep_container(env)
             THEN stop(c, "drop", out) /\ last' = Call(c, "stop", "drop", out, 0, None, "none")
             ELSE rm(c, "drop", out) /\ last' = Call(c, "rm", "drop", out, 0, None, "none")
          /\ escaped' = [escaped EXCEPT ![c] = (out = "panic")]

(* --------------------------- environment ------------------------------- *)

\* std::env::set_var / remove_var of KEEP_CONTAINERS somewhere in the process.
SetEnv ==
    /\ MayStep
    /\ \E v \in EnvValues \ {env} : env' = v
    /\ nquiet' = nquiet + 1
    /\ last' = NoCall
    /\ UNCHANGED <<containerVars, inst, ports, reachable, log>>

\* The runtime changes the port mappings of an instance.
SetPorts ==
    /\ MayStep
    /\ \E i \in InstanceIds : \E t \in PortTables \ {ports[i]} :
          ports' = [ports EXCEPT ![i] = t]
    /\ nquiet' = nquiet + 1
    /\ last' = NoCall
    /\ UNCHANGED <<containerVars, env, inst, reachable, log>>

\* The runtime becomes unreachable, or reachable again.
SetReachable ==
    /\ MayStep
    /\ reachable' = ~reachable
    /\ nquiet' = nquiet + 1
    /\ last' = NoCall
    /\ UNCHANGED <<containerVars, env, inst, ports, log>>

(* ------------------------------ Next ----------------------------------- *)

Next ==
    \/ \E c \in Slots : new(c)
    \/ \E c \in Slots : wait_until_ready_query(c)
    \/ \E c \in Slots : block_until_ready(c)
    \/ \E c \in Slots : wait_until_ready_panics(c)
    \/ \E c \in Slots : CallerStop(c)
    \/ \E c \in Slots : CallerStart(c)
    \/ \E c \in Slots : CallerRm(c)
    \/ \E c \in Slots : CallerLogs(c)
    \/ \E c \in Slots : CallerGetHostPort(c)
    \/ \E c \in Slots : CallerId(c)
    \/ \E c \in Slots : CallerImage(c)
    \/ \E c \in Slots : CallerPanics(c)
    \/ \E c \in Slots : drop(c)
    \/ SetEnv
    \/ SetPorts
    \/ SetReachable

Spec == Init /\ [][Next]_vars

\* The code that owns a Container goes on until its scope ends: Drop::drop is
\* not put off for ever.  Nothing makes a readiness predicate return.
FairSpec == Spec /\ \A c \in Slots : WF_vars(drop(c))

TypeOK ==
    /\ pc \in [Slots -> {"created", "waiting", "live", "unwinding", "dropped"}]
    /\ ready \in [Slots -> {"none", "ok", "panic"}]
    /\ exit \in [Slots -> {"none", "normal", "unwind"}]
    /\ env \in EnvValues
    /\ envAtNew \in [Slots -> EnvValues]
    /\ envAtDrop \in [Slots -> EnvValues]
    /\ drops \in [Slots -> 0..1]
    /\ waits \in [Slots -> 0..1]
    /\ escaped \in [Slots -> BOOLEAN]
    /\ inst \in [InstanceIds -> {"running", "stopped", "removed"}]
    /\ ports \in [InstanceIds -> PortTables]
    /\ reachable \in BOOLEAN
    /\ nquiet \in 0..MaxSteps

(* ============================= properties ============================== *)

\* Positions in the client's log.
Calls == 1..Len(log)

\* The calls Drop::drop of Container c issued.
TeardownCalls(c) == {k \in Calls : log[k].by = "drop" /\ log[k].slot = c}

\* The calls the caller of Container c issued through its methods.
CallerCalls(c) == {k \in Calls : log[k].by = "caller" /\ log[k].slot = c}

\* The stop and rm calls the client received for instance i, whoever issued them.
StopRmCalls(i) == {k \in Calls : log[k].id = i /\ log[k].op \in {"stop", "rm"}}

\* The values of KEEP_CONTAINERS that parse as true.
Truthy == {"true"}

\* C1 as stated: over the lifetime of every Container, whatever the caller did
\* with start(), stop() and rm(), the client has observed exactly one stop or
\* remove action for its id when its lifetime is over: not none, not two.
C1_ExactlyOneObserved ==
    \A c \in Slots :
        pc[c] = "dropped" => Cardinality(StopRmCalls(GivenId[c])) = 1

\* C1 amended: the automatic teardown issues exactly one client call, stop(id)
\* or rm(id) with the Container's own id: none before the scope ends, one once
\* it has ended.  The explicit stop() and rm() calls of the caller reach the
\* client besides it.
C1_TeardownIssuesOneCall ==
    \A c \in Slots :
        /\ pc[c] # "dropped" => TeardownCalls(c) = {}
        /\ pc[c] = "dropped" => Cardinality(TeardownCalls(c)) = 1
        /\ \A k \in TeardownCalls(c) : log[k].op \in {"stop", "rm"} /\ log[k].id = GivenId[c]

\* C1's case: a caller stopped or removed its container explicitly, the scope
\* ended, and the client has seen the explicit call and the teardown's call.
C1_Witness ==
    \E c \in Slots :
        /\ pc[c] = "dropped"
        /\ \E k \in CallerCalls(c) : log[k].op \in {"stop", "rm"}
        /\ Cardinality(TeardownCalls(c)) = 1
        /\ Cardinality(StopRmCalls(GivenId[c])) = 2

\* C2 as stated: when KEEP_CONTAINERS is unset, false or unparsable at scope
\* end, the client receives stop(id) and after it remove(id).
C2_StopThenRemove ==
    \A c \in Slots :
        (pc[c] = "dropped" /\ envAtDrop[c] \notin Truthy) =>
            \E k, j \in Calls :
                /\ k < j
                /\ log[k].id = GivenId[c] /\ log[k].op = "stop"
                /\ log[j].id = GivenId[c] /\ log[j].op = "rm" /\ log[j].by = "drop"

\* C2 amended: when KEEP_CONTAINERS is unset, false or unparsable at scope
\* end, the teardown issues rm(id) and nothing else: the client receives no
\* stop(id) from it (stopping before removal is left to the client's rm).
C2_RemoveOnly ==
    \A c \in Slots :
        (pc[c] = "dropped" /\ envAtDrop[c] \notin Truthy) =>
            /\ \E k \in TeardownCalls(c) : log[k].op = "rm" /\ log[k].id = GivenId[c]
            /\ \A k \in TeardownCalls(c) : log[k].op = "rm"
            /\ Cardinality(TeardownCalls(c)) = 1

\* C2's scenario: constructed and dropped with KEEP_CONTAINERS unset; the only
\* call the client received for the id is rm, and the instance is removed.
C2_Witness ==
    \E c \in Slots :
        /\ pc[c] = "dropped" /\ ready[c] = "ok"
        /\ envAtNew[c] = Unset /\ envAtDrop[c] = Unset
        /\ \A k \in Calls : log[k].id = GivenId[c] => log[k].op = "rm" /\ log[k].by = "drop"
        /\ inst[GivenId[c]] = "removed"

\* C3: the branch of the teardown is a function of the value of
\* KEEP_CONTAINERS at scope end alone: "true" gives a stop(id) call and no
\* remove(id) call; every other value (absent, "false", a string that does not
\* parse as a boolean) gives a remove(id) call.
C3_BranchByPolicy ==
    \A c \in Slots :
        pc[c] = "dropped" =>
            /\ envAtDrop[c] \in Truthy =>
                  /\ \E k \in TeardownCalls(c) : log[k].op = "stop"
                  /\ \A k \in TeardownCalls(c) : log[k].op # "rm"
            /\ envAtDrop[c] \in {Unset, "false", "1"} =>
                  \E k \in TeardownCalls(c) : log[k].op = "rm"

\* C3's cases: one container torn down under "true" (stopped, not removed) and
\* another under the unparsable "1" (removed).
C3_Witness ==
    \E c, d \in Slots :
        /\ pc[c] = "dropped" /\ envAtDrop[c] = "true"
        /\ inst[GivenId[c]] = "stopped"
        /\ pc[d] = "dropped" /\ envAtDrop[d] = "1"
        /\ inst[GivenId[d]] = "removed"

\* C4 as stated: every operation the caller issues on a container, and the
\* container's automatic teardown, happen after its readiness predicate has
\* completed successfully.
C4_AllAfterReady ==
    \A c \in Slots :
        (CallerCalls(c) # {} \/ TeardownCalls(c) # {} \/ drops[c] > 0 \/ pc[c] = "live")
            => ready[c] = "ok"

\* C4 amended: the caller holds the container, and issues operations on it,
\* only after its readiness predicate has returned; the automatic teardown runs
\* only after the predicate has ended, by returning or by panicking (the panic
\* drops the Container that new had built).
C4_CallerAfterReady ==
    \A c \in Slots :
        /\ (CallerCalls(c) # {} \/ pc[c] = "live" \/ (last.slot = c /\ last.by = "caller"))
              => ready[c] = "ok"
        /\ (TeardownCalls(c) # {} \/ drops[c] > 0) => ready[c] \in {"ok", "panic"}

\* C4's cases: a caller used one container after its readiness, and another
\* container was torn down although its readiness predicate never succeeded.
C4_Witness ==
    \E c, d \in Slots :
        /\ CallerCalls(c) # {} /\ ready[c] = "ok"
        /\ ready[d] = "panic" /\ TeardownCalls(d) # {}

\* C5 as stated: when the readiness predicate fails, no Container is produced,
\* no teardown is triggered (the client receives neither stop(id) nor
\* remove(id)) and the instance is left running.
C5_NoTeardownOnFailure ==
    \A c \in Slots :
        ready[c] = "panic" =>
            /\ pc[c] # "live" /\ CallerCalls(c) = {}
            /\ StopRmCalls(GivenId[c]) = {}
            /\ inst[GivenId[c]] = "running"

\* C5 amended: when the readiness predicate fails (panics), construction fails
\* and no Container reaches the caller, but the Container built inside new is
\* dropped by the unwinding: the teardown is triggered once and the client
\* receives its one stop(id) or remove(id), chosen by KEEP_CONTAINERS.
C5_TeardownOnFailure ==
    \A c \in Slots :
        ready[c] = "panic" =>
            /\ pc[c] \in {"unwinding", "dropped"} /\ CallerCalls(c) = {}
            /\ pc[c] = "dropped" =>
                  /\ exit[c] = "unwind" /\ drops[c] = 1
                  /\ Cardinality(TeardownCalls(c)) = 1
                  /\ \A k \in TeardownCalls(c) :
                        log[k].op = (IF envAtDrop[c] \in Truthy THEN "stop" ELSE "rm")

\* C5's case: the readiness predicate panicked and the instance was removed by
\* the teardown that followed.
C5_Witness ==
    \E c \in Slots :
        /\ ready[c] = "panic" /\ pc[c] = "dropped"
        /\ \E k \in TeardownCalls(c) : log[k].op = "rm"
        /\ inst[GivenId[c]] = "removed"

\* The operations the teardown of Container c asked of the client.
TeardownOps(c) == {log[k].op : k \in TeardownCalls(c)}

\* The calls the client received on behalf of Container c.
SlotCalls(c) == {k \in Calls : log[k].slot = c}

\* C6: for every Container the automatic teardown fires exactly once, when the
\* owning scope ends, by fall-through or by unwinding: it is Drop::drop that
\* fires it, never an explicit start(), stop() or rm(), and once it has fired
\* nothing further happens to that container.
C6_TeardownFiresOnce ==
    [][\A c \in Slots :
          /\ (pc'[c] = "dropped") <=> (drops'[c] = 1)
          /\ drops'[c] \in {drops[c], drops[c] + 1} /\ drops'[c] <= 1
          /\ drops'[c] # drops[c] =>
                /\ pc[c] \in {"live", "unwinding"} /\ pc'[c] = "dropped"
                /\ exit'[c] = (IF pc[c] = "unwinding" THEN "unwind" ELSE "normal")
                /\ last'.by = "drop" /\ last'.slot = c
                /\ Cardinality(TeardownCalls(c)') = 1
          /\ last'.by = "caller" => (drops' = drops /\ TeardownCalls(c)' = TeardownCalls(c))
          /\ pc[c] = "dropped" =>
                /\ pc'[c] = "dropped" /\ drops'[c] = drops[c] /\ exit'[c] = exit[c]
                /\ SlotCalls(c)' = SlotCalls(c)
                /\ inst'[GivenId[c]] = inst[GivenId[c]]
      ]_vars

\* C6's cases: two containers that construction returned, one torn down at a
\* normal scope end after its caller used start(), stop() or rm(), and one
\* torn down while its owner was unwinding.
C6_Witness ==
    \E c, d \in Slots :
        /\ ready[c] = "ok" /\ ready[d] = "ok"
        /\ pc[c] = "dropped" /\ exit[c] = "normal" /\ drops[c] = 1
        /\ pc[d] = "dropped" /\ exit[d] = "unwind" /\ drops[d] = 1
        /\ \E k \in CallerCalls(c) : log[k].op \in {"start", "stop", "rm"}

\* C7: the teardown policy is read when the teardown runs, not at
\* construction: the branch follows the value of KEEP_CONTAINERS at scope end
\* also when the value at construction would have chosen the other branch, and
\* two containers take the same branch exactly when their values at scope end
\* choose the same.
C7_PolicyReadAtTeardown ==
    \A c, d \in Slots :
        (pc[c] = "dropped" /\ pc[d] = "dropped") =>
            /\ ((envAtNew[c] \in Truthy) # (envAtDrop[c] \in Truthy)) =>
                  TeardownOps(c) = (IF envAtNew[c] \in Truthy THEN {"rm"} ELSE {"stop"})
            /\ ((envAtDrop[c] \in Truthy) = (envAtDrop[d] \in Truthy))
                  <=> (TeardownOps(c) = TeardownOps(d))

\* C7's cases: a container constructed with KEEP_CONTAINERS unset and torn down
\* under "true" is stopped, and another container of the process, torn down
\* under another value, is removed.
C7_Witness ==
    \E c, d \in Slots :
        /\ pc[c] = "dropped" /\ envAtNew[c] = Unset /\ envAtDrop[c] = "true"
        /\ TeardownOps(c) = {"stop"}
        /\ pc[d] = "dropped" /\ envAtDrop[d] \notin Truthy
        /\ TeardownOps(d) = {"rm"}

\* C8: get_host_port(p) returns Some(h) exactly when the client's current
\* mapping table of the container's id maps p to h, and None when p is not
\* mapped, whatever the instance's state and the earlier calls.
C8_HostPortIffMapped ==
    (last.op = "ports" /\ last.out = "ok") =>
        LET table == ports[GivenId[last.slot]]
            p     == last.arg
        IN  /\ last.ret \subseteq HostPorts
            /\ \A h \in HostPorts : (h \in last.ret) <=> (p \in DOMAIN table /\ table[p] = h)
            /\ p \notin DOMAIN table => last.ret = None

\* C8's case: the client's table changed after construction and
\* get_host_port(80) answers with the host port of the current table.
C8_Witness ==
    /\ last.op = "ports" /\ last.by = "caller" /\ last.out = "ok"
    /\ last.arg = 80 /\ last.ret = Some(49154)
    /\ ports[GivenId[last.slot]][80] = 49154

\* C9 as stated: when the client call of the automatic teardown fails, the
\* failure is swallowed (nothing leaves Drop::drop) and not retried.
C9_FailureSwallowed ==
    (last.by = "drop" /\ last.out \in {"err", "panic"}) =>
        /\ ~escaped[last.slot]
        /\ Cardinality(TeardownCalls(last.slot)) = 1

\* C9 amended: when the client call of the automatic teardown fails, the
\* teardown makes no second attempt; a failure the client keeps to itself
\* (the call returns) leaves nothing to propagate, and a failure the client
\* raises as a panic leaves Drop::drop, which does not catch it.
C9_FailureNotRetried ==
    /\ (last.by = "drop" /\ last.out \in {"err", "panic"}) =>
          /\ Cardinality(TeardownCalls(last.slot)) = 1
          /\ escaped[last.slot] <=> (last.out = "panic")
          /\ pc[last.slot] = "dropped"
    /\ \A c \in Slots : escaped[c] => (pc[c] = "dropped" /\ Cardinality(TeardownCalls(c)) = 1)

\* C9's case: the caller removed the instance explicitly, so the rm of the
\* teardown failed; the call returned and nothing propagated.
C9_Witness ==
    /\ last.by = "drop" /\ last.op = "rm" /\ last.out = "err"
    /\ \E k \in CallerCalls(last.slot) : log[k].op = "rm"
    /\ inst[GivenId[last.slot]] = "removed"
    /\ ~escaped[last.slot]

\* C10: stop() is idempotent: a stop() that directly follows a successful
\* stop() on the same Container succeeds too and changes neither the
\* instance's state nor the Container.
C10_StopIdempotent ==
    [][\A c \in Slots :
          ( /\ last = Call(c, "stop", "caller", "ok", 0, None, "none")
            /\ Len(log') = Len(log) + 1
            /\ last'.slot = c /\ last'.op = "stop" /\ last'.by = "caller" )
          => /\ last'.out = "ok"
             /\ inst' = inst /\ ports' = ports /\ reachable' = reachable
             /\ self' = self /\ pc' = pc
      ]_vars

\* C10's case: the caller called stop() twice in a row, both calls succeeded
\* and the instance is stopped.
C10_Witness ==
    \E c \in Slots :
        /\ Len(log) >= 2
        /\ \A k \in {Len(log) - 1, Len(log)} :
              log[k].op = "stop" /\ log[k].by = "caller" /\ log[k].slot = c
        /\ last = Call(c, "stop", "caller", "ok", 0, None, "none")
        /\ inst[GivenId[c]] = "stopped"

\* C11 as stated: a failure of the client call of an explicit start(), stop(),
\* rm(), logs() or get_host_port() reaches the caller of that operation, and
\* the same failure in the automatic teardown is swallowed.
C11_SurfacedButSwallowedOnDrop ==
    /\ (last.by = "caller" /\ last.out \in {"err", "panic"}) => pc[last.slot] = "unwinding"
    /\ (last.by = "drop" /\ last.out \in {"err", "panic"}) => ~escaped[last.slot]

\* C11 amended: explicit operations and the automatic teardown treat a failure
\* of the client call alike, because Drop::drop calls the same stop() and
\* rm(): a failure the client raises as a panic reaches the caller of the
\* explicit operation and leaves Drop::drop as well; a failure the client keeps
\* to itself (start, stop and rm return ()) reaches neither.
C11_SameOnBothPaths ==
    /\ (last.by = "caller" /\ last.out \in {"err", "panic"}) =>
          ((pc[last.slot] = "unwinding") <=> (last.out = "panic"))
    /\ (last.by = "caller" /\ last.out = "err") => pc[last.slot] = "live"
    /\ (last.by = "drop" /\ last.out \in {"err", "panic"}) =>
          (escaped[last.slot] <=> (last.out = "panic"))

\* C11's case: the client is unreachable, an explicit call of the caller
\* panicked, and the call of the teardown that followed panicked out of
\* Drop::drop too.
C11_Witness ==
    /\ ~reachable
    /\ last.by = "drop" /\ last.out = "panic"
    /\ escaped[last.slot] /\ exit[last.slot] = "unwind"
    /\ CallerCalls(last.slot) # {}

\* C12: the readiness predicate is invoked exactly once per Container, by
\* construction: start() sends one start(id) to the client and does not wait
\* for readiness again, so the caller keeps the handle after stop(); start().
C12_ReadinessOnlyAtConstruction ==
    [][\A c \in Slots :
          /\ waits'[c] = (IF pc'[c] = "created" THEN 0 ELSE 1)
          /\ waits'[c] # waits[c] => (pc[c] = "created" /\ pc'[c] = "waiting")
          /\ (pc[c] = "live" /\ last'.slot = c /\ last'.op = "start" /\ Len(log') > Len(log)) =>
                /\ log' = Append(log, [op |-> "start", id |-> GivenId[c], by |-> "caller", slot |-> c])
                /\ waits'[c] = waits[c] /\ ready'[c] = ready[c]
                /\ pc'[c] = (IF last'.out = "panic" THEN "unwinding" ELSE "live")
      ]_vars

\* C12's case: the caller stopped the container and started it again; the
\* instance runs, the handle is with the caller and the predicate ran once.
C12_Witness ==
    \E c \in Slots :
        /\ Len(log) >= 2
        /\ log[Len(log) - 1] = [op |-> "stop", id |-> GivenId[c], by |-> "caller", slot |-> c]
        /\ log[Len(log)] = [op |-> "start", id |-> GivenId[c], by |-> "caller", slot |-> c]
        /\ last = Call(c, "start", "caller", "ok", 0, None, "none")
        /\ pc[c] = "live" /\ waits[c] = 1 /\ inst[GivenId[c]] = "running"

\* C13: the id of a Container is the one given at construction and never
\* changes, and neither does its image: whatever the caller calls, id() returns
\* the construction id and every call the Container sends to the client
\* (start, stop, rm, ports, logs, the teardown's call) carries that id.
C13_IdStable ==
    [][\A c \in Slots :
          /\ pc[c] # "created" => self'[c] = self[c]
          /\ pc'[c] # "created" => (self'[c].id = GivenId[c] /\ self'[c].image \in Images)
          /\ \A k \in 1..Len(log') : log'[k].slot = c => log'[k].id = GivenId[c]
          /\ (last'.slot = c /\ last'.op = "id") => last'.ret = {GivenId[c]}
          /\ (last'.slot = c /\ last'.op = "image") => last'.ret = {self[c].image}
      ]_vars

\* C13's case: after a stop() the caller asks for the id and gets the
\* construction id, which is also the id the stop carried.
C13_Witness ==
    /\ last.op = "id" /\ last.ret = {GivenId[last.slot]}
    /\ \E k \in CallerCalls(last.slot) : log[k].op = "stop" /\ log[k].id = GivenId[last.slot]
    /\ self[last.slot].id = GivenId[last.slot]

\* The calls the client received for instance i from a teardown.
TeardownCallsFor(i) == {k \in Calls : log[k].by = "drop" /\ log[k].id = i}

\* C14: when Containers with distinct ids share the client and their
\* operations and scope ends interleave, each id receives its own teardown
\* once, never two for one Container, and no operation or teardown of one
\* Container sends a call with the id of another.
C14_IndependentContainers ==
    \A c \in Slots :
        /\ Cardinality(TeardownCallsFor(GivenId[c])) = (IF pc[c] = "dropped" THEN 1 ELSE 0)
        /\ \A k \in TeardownCallsFor(GivenId[c]) : log[k].slot = c
        /\ \A d \in Slots \ {c} : \A k \in SlotCalls(c) : log[k].id # GivenId[d]
        /\ \A d \in Slots \ {c} :
              (SlotCalls(d) = {} /\ pc[d] # "dropped") => inst[GivenId[d]] = "running"

\* C14's case: the callers of two containers each issued a call, and the two
\* teardowns ran in the order opposite to the calls.
C14_Witness ==
    \E c, d \in Slots :
        /\ c # d /\ pc[c] = "dropped" /\ pc[d] = "dropped"
        /\ Len(log) = 4
        /\ log[1].slot = c /\ log[1].by = "caller"
        /\ log[2].slot = d /\ log[2].by = "caller"
        /\ log[3].slot = d /\ log[3].by = "drop"
        /\ log[4].slot = c /\ log[4].by = "drop"

\* C15: the queries are read-only: get_host_port(p), logs(), image() and id()
\* send no start, stop or remove to the client and leave the instance's state,
\* its port mapping table and the Container's id and image as they were;
\* get_host_port exposes no port, whether it resolves or not.
C15_QueriesReadOnly ==
    [][(/\ last'.op \in {"ports", "logs", "id", "image"}
        /\ (Len(log') > Len(log) \/ nquiet' > nquiet))
       => /\ inst' = inst /\ ports' = ports /\ reachable' = reachable
          /\ self' = self /\ env' = env
          /\ Len(log') <= Len(log) + 1
          /\ \A k \in (Len(log) + 1)..Len(log') :
                /\ log'[k].op = last'.op /\ log'[k].op \in {"ports", "logs"}
                /\ log'[k].id = GivenId[last'.slot]
          /\ last'.op \in {"id", "image"} => log' = log
          /\ (last'.op = "ports" /\ last'.out = "ok") =>
                last'.diag = (IF last'.ret = None THEN "warn" ELSE "debug")
      ]_vars

\* C15's case: get_host_port(81) did not resolve: it answered None with a
\* warning, and 81 is still not in the table of the running instance.
C15_Witness ==
    /\ last.op = "ports" /\ last.by = "caller" /\ last.out = "ok"
    /\ last.arg = 81 /\ last.ret = None /\ last.diag = "warn"
    /\ 81 \notin DOMAIN ports[GivenId[last.slot]]
    /\ inst[GivenId[last.slot]] = "running"

\* C16 as stated: once a remove(id) has been sent to the client for a
\* Container's id, by an explicit rm() or by the teardown, the Container sends
\* no further call for that id, not even at scope end.
C16_NothingAfterRemove ==
    \A k, j \in Calls :
        (k < j /\ log[k].op = "rm") => log[j].id # log[k].id

\* C16 amended: the call of the automatic teardown is the last call a
\* Container sends for its id.  An explicit rm() does not end the Container:
\* rm takes &self, later calls of the caller are still sent, and the scope end
\* still sends the teardown's stop(id) or rm(id) for the removed instance.
C16_TeardownCallIsLast ==
    \A c \in Slots :
        /\ \A k \in TeardownCalls(c) : \A j \in Calls : j > k => log[j].id # GivenId[c]
        /\ (pc[c] = "dropped" /\ \E k \in CallerCalls(c) : log[k].op = "rm") =>
              \E j \in TeardownCalls(c) : \A k \in CallerCalls(c) : k < j

\* C16's case: the caller removed the instance, called stop() on the same
\* handle afterwards, and the scope end sent the teardown's call for the id.
C16_Witness ==
    \E c \in Slots : \E k, j, m \in Calls :
        /\ k < j /\ j < m
        /\ log[k] = [op |-> "rm", id |-> GivenId[c], by |-> "caller", slot |-> c]
        /\ log[j] = [op |-> "stop", id |-> GivenId[c], by |-> "caller", slot |-> c]
        /\ log[m].by = "drop" /\ log[m].id = GivenId[c]
        /\ pc[c] = "dropped"

\* C17: construction ends exactly when the readiness predicate ends, and there
\* is no timeout: as long as wait_until_ready has not returned, construction
\* has not returned, no handle is with the caller and no stop(id) or
\* remove(id) has been sent; the only ways out of the wait are the predicate's
\* return, which yields the handle, and its panic; and a container whose
\* predicate returned is eventually torn down, when its scope ends.
C17_ConstructionEndsWithReadiness ==
    /\ [](\A c \in Slots :
            ready[c] = "none" =>
                /\ pc[c] \in {"created", "waiting"}
                /\ CallerCalls(c) = {} /\ StopRmCalls(GivenId[c]) = {})
    /\ [][\A c \in Slots :
            (pc[c] = "waiting" /\ pc'[c] # "waiting") =>
                /\ ready[c] = "none" /\ ready'[c] \in {"ok", "panic"}
                /\ (ready'[c] = "ok") <=> (pc'[c] = "live")
         ]_vars
    /\ \A c \in Slots :
          (ready[c] = "ok") ~> (pc[c] = "dropped" /\ TeardownCalls(c) # {})

\* C17's case: the predicate of one container has queried its handle and has
\* still not returned while another container went through its whole life;
\* nothing was stopped or removed for the waiting one.
C17_Witness ==
    \E c, d \in Slots :
        /\ pc[c] = "waiting" /\ ready[c] = "none"
        /\ \E k \in SlotCalls(c) : log[k].by = "pred"
        /\ StopRmCalls(GivenId[c]) = {}
        /\ ready[d] = "ok" /\ pc[d] = "dropped" /\ TeardownCalls(d) # {}

====
